---- MODULE Spec2Model ----
(***************************************************************************)
(* Model of the step-workflow coordinator of src/4_agent2agent.py          *)
(* (TranslatorAgent): the dispatcher run(), its three step handlers, the   *)
(* remote delegation sub-flow with its balance check, and the remote-task  *)
(* callback.  The payment/task protocol SDK is the environment: its step   *)
(* store, task log, plan balance and remote-task set are the state; each   *)
(* outbound call may succeed or fail.  Handlers are coroutines on one      *)
(* event loop: they interleave only at their await points, so every action *)
(* below is the code between two awaits.                                   *)
(***************************************************************************)
EXTENDS Integers, Sequences, FiniteSets, Bags, TLC

\* ---------------------------------------------------------------- bounds
MaxEvents == 4       \* events delivered: step-ready events and callbacks
MaxInv == 3          \* step-ready events among them
PlanCredits == 1     \* credits a successful order_plan adds to the plan
MaxFaults == 1       \* outbound calls that fail in one execution
MaxUploads == 2      \* calls of upload_file_to_ipfs in one execution

\* ------------------------------------------------------------- constants
Pending == "Pending"
In_Progress == "In_Progress"
Completed == "Completed"
Failed == "Failed"
None == "<None>"

TaskId == 1                       \* the local task of the workflow
InputQuery == "Hola"              \* input_query the store serves for a step

FirstStepNames == {"init", "summarize"}   \* the step a task starts with
\* What the chat completion call does: it answers with a content, or raises
\* with an error text.
Replies == {[raised |-> FALSE, text |-> "Hello"],
            [raised |-> FALSE, text |-> ""],
            [raised |-> TRUE, text |-> "upstream"]}
NoReply == [raised |-> FALSE, text |-> None]

\* (variant: the error text is returned without the "Error: " mark)
translate_text_bare_error(reply) == reply.text

\* OpenAITools.translate_text: the content of the answer, or "Error: " and
\* the text of the exception; it raises nothing.
translate_text(reply) ==
    IF reply.raised THEN "Error: " \o reply.text ELSE reply.text

TranslateResults == {translate_text(reply) : reply \in Replies}
RemoteOutputs == {"", "ipfs://cid"}
RemoteStatuses == {Completed, Failed}
CallbackStatuses == {Completed, Failed, In_Progress, None}
CallbackMessage == "remote says"
CreateTaskResults == {201, 500, 0}   \* 0: the call raised
OrderResults == {"success", "declined", "raised"}

\* Paths handed to upload_file_to_ipfs: its default, and the files that
\* text2speech writes, each in a temporary directory of its own.
Filenames == {"file.mp3", "tmp1/text2speech.mp3", "tmp2/text2speech.mp3"}
\* pin_file_to_ipfs answers with an IpfsHash, with an error document that
\* has none, or raises.
PinResults == {"IpfsHash", "no IpfsHash", "raised"}
Cid == "QmCid"

VARIABLES
    steps,        \* the step store: step_id -> step record
    taskLogs,     \* the append-only task log, as a bag of entries
    remoteTasks,  \* tasks created on the third-party agent
    balance,      \* credits of THIRD_PARTY_PLAN_DID
    invs,         \* invocations of run(), one per delivered event (a bag)
    cbCount,      \* invocations of task_callback so far
    cb,           \* the latest invocation of task_callback
    faults,       \* outbound calls that have failed so far
    files,        \* the local file system: path -> whether a file is there
    uploads       \* the calls of upload_file_to_ipfs that have finished

vars == <<steps, taskLogs, remoteTasks, balance, invs, cbCount, cb, faults,
          files, uploads>>

\* ------------------------------------------------------------- helpers
Call(op, arg, ok, n) == [op |-> op, arg |-> arg, ok |-> ok, n |-> n]

Falsy(x) == x \in {None, ""}

\* A handler context: the store and log as this invocation has left them,
\* the calls it has made, and whether an exception is propagating.
Ctx(calls) == [steps |-> steps, taskLogs |-> taskLogs, calls |-> calls,
               raised |-> FALSE]

\* One entry of the task log; a falsy status leaves task_status unset.
TaskLog(task_id, message, status) ==
    [task_id |-> task_id, message |-> message,
     task_status |-> IF Falsy(status) THEN None ELSE status]

\* payments.ai_protocol.log_task via _log_task
_log_task(ctx, task_id, message, status) ==
    [ctx EXCEPT
       !.taskLogs = @ (+) SetToBag({TaskLog(task_id, message, status)}),
       !.calls = Append(@, Call("log_task",
                                TaskLog(task_id, message, status).task_status,
                                TRUE, task_id))]

_log_task_start(ctx, task_id, message) ==
    _log_task(ctx, task_id, message, Pending)

_log_task_error(ctx, task_id, message) ==
    _log_task(ctx, task_id, message, Failed)

\* (variant: a call that raises has written the step all the same)
update_step_writes_then_raises(ctx, step_id, upd, ok) ==
    [ctx EXCEPT
       !.steps[step_id] = [f \in DOMAIN @ |->
                             IF f \in DOMAIN upd THEN upd[f] ELSE @[f]],
       !.raised = ~ok,
       !.calls = Append(@, Call("update_step", upd.step_status, ok, step_id))]

\* payments.ai_protocol.update_step: writes the given fields of the step,
\* or raises.
update_step(ctx, step_id, upd, ok) ==
    IF ok
    THEN [ctx EXCEPT
            !.steps[step_id] = [f \in DOMAIN @ |->
                                  IF f \in DOMAIN upd THEN upd[f] ELSE @[f]],
            !.calls = Append(@, Call("update_step", upd.step_status, TRUE,
                                     step_id))]
    ELSE [ctx EXCEPT
            !.raised = TRUE,
            !.calls = Append(@, Call("update_step", upd.step_status, FALSE,
                                     step_id))]

\* (variant: the output is recorded as given, with no fallback)
_complete_step_no_fallback(ctx, step, message, output, ok) ==
    LET c1 == update_step(ctx, step.step_id,
                          [step_status |-> Completed, output |-> output,
                           is_last |-> step.is_last], ok)
    IN  IF c1.raised THEN c1
        ELSE IF step.is_last
             THEN _log_task(c1, step.task_id, message, Completed)
             ELSE c1

\* (variant: the completion of every step is logged as Completed)
_complete_step_logs_always(ctx, step, message, output, ok) ==
    LET c1 == update_step(ctx, step.step_id,
                          [step_status |-> Completed,
                           output |-> IF Falsy(output) THEN step.input_query
                                      ELSE output,
                           is_last |-> step.is_last], ok)
    IN  IF c1.raised THEN c1
        ELSE _log_task(c1, step.task_id, message, Completed)

_complete_step(ctx, step, message, output, ok) ==
    LET update_data == [step_status |-> Completed,
                        output |-> IF Falsy(output) THEN step.input_query
                                   ELSE output,
                        is_last |-> step.is_last]
        c1 == update_step(ctx, step.step_id, update_data, ok)
    IN  IF c1.raised THEN c1
        ELSE IF step.is_last
             THEN _log_task(c1, step.task_id, message, Completed)
             ELSE c1

\* (variant: In_Progress steps pass the check too)
_is_step_pending_lax(step) == step.step_status \in {Pending, In_Progress}

_is_step_pending(step) == step.step_status = Pending

NewStep(id, task_id, pred, name, last) ==
    [step_id |-> id, task_id |-> task_id, predecessor |-> pred,
     name |-> name, is_last |-> last, step_status |-> Pending,
     input_query |-> InputQuery, output |-> None]

\* (variant: the init step is completed before its successors are created)
_handle_init_step_completes_first(ctx, step, okCreate, okUpdate) ==
    LET c1 == _complete_step(ctx, step, "Init step completed", None, okUpdate)
    IN  IF c1.raised THEN c1
        ELSE IF ~okCreate
        THEN [c1 EXCEPT !.raised = TRUE,
                !.calls = Append(@, Call("create_steps", "", FALSE,
                                         step.step_id))]
        ELSE [c1 EXCEPT
                !.steps = @ \o << NewStep(Len(ctx.steps) + 1, step.task_id,
                                          step.step_id, "translate", FALSE),
                                  NewStep(Len(ctx.steps) + 2, step.task_id,
                                          Len(ctx.steps) + 1, "text2speech",
                                          TRUE) >>,
                !.calls = Append(@, Call("create_steps", "", TRUE,
                                         step.step_id))]

\* (variant: the init step is not completed after its successors exist)
_handle_init_step_no_complete(ctx, step, okCreate, okUpdate) ==
    IF ~okCreate
    THEN [ctx EXCEPT !.raised = TRUE,
            !.calls = Append(@, Call("create_steps", "", FALSE,
                                     step.step_id))]
    ELSE [ctx EXCEPT
            !.steps = @ \o << NewStep(Len(ctx.steps) + 1, step.task_id,
                                      step.step_id, "translate", FALSE),
                              NewStep(Len(ctx.steps) + 2, step.task_id,
                                      Len(ctx.steps) + 1, "text2speech",
                                      TRUE) >>,
            !.calls = Append(@, Call("create_steps", "", TRUE,
                                     step.step_id))]

\* payments.ai_protocol.create_steps with the two steps of _handle_init_step
_handle_init_step(ctx, step, okCreate, okUpdate) ==
    LET translate_step_id == Len(ctx.steps) + 1
        text2speech_step_id == Len(ctx.steps) + 2
        new_steps == << NewStep(translate_step_id, step.task_id, step.step_id,
                                "translate", FALSE),
                        NewStep(text2speech_step_id, step.task_id,
                                translate_step_id, "text2speech", TRUE) >>
    IN  IF ~okCreate
        THEN [ctx EXCEPT !.raised = TRUE,
                !.calls = Append(@, Call("create_steps", "", FALSE,
                                         step.step_id))]
        ELSE _complete_step(
                 [ctx EXCEPT !.steps = @ \o new_steps,
                    !.calls = Append(@, Call("create_steps", "", TRUE,
                                             step.step_id))],
                 step, "Init step completed", None, okUpdate)

\* str(e) of the exception that is propagating: the text of the outbound
\* call that raised, or of the ValueError of run() when no call did.
ErrorText(calls) ==
    LET failed == {k \in 1..Len(calls) : ~calls[k].ok}
    IN  IF failed = {} THEN "Unknown step name"
        ELSE calls[CHOOSE k \in failed : \A j \in failed : j <= k].op
                 \o " raised"

\* (variant: the except clause swallows the exception without a log)
RunExcept_unlogged(ctx, task_id) ==
    [ctx EXCEPT !.raised = FALSE]

\* The except clause of run(): an exception of a handler becomes one
\* Failed task log that carries its text.
RunExcept(ctx, task_id) ==
    IF ctx.raised
    THEN [_log_task_error(ctx, task_id,
                          "Error processing step: " \o ErrorText(ctx.calls))
            EXCEPT !.raised = FALSE]
    ELSE ctx

Invocation(step, pc, calls) ==
    [step_id |-> step.step_id, task_id |-> step.task_id,
     fetched |-> step.step_status, pc |-> pc, calls |-> calls,
     result |-> 0, subtask |-> 0, reply |-> NoReply]

\* Before the first callback there is no latest one.
NoCallback ==
    [subtask |-> 0, task_status |-> None, step_id |-> 0,
     fetched |-> [task_id |-> 0, task_status |-> None, output |-> None],
     raised |-> FALSE, calls |-> << >>]

\* ---------------------------------------------------------------- Init
\* The agent subscribes to a store that holds one task: a new one, with its
\* first step Pending, or one whose init step an earlier run of the agent
\* has already handled.
NewTask(name) == << NewStep(1, TaskId, 0, name, FALSE) >>

StartedTask ==
    _handle_init_step([steps |-> NewTask("init"), taskLogs |-> EmptyBag,
                       calls |-> << >>, raised |-> FALSE],
                      NewTask("init")[1], TRUE, TRUE).steps

InitialStores == {NewTask(name) : name \in FirstStepNames} \cup {StartedTask}

Init ==
    /\ steps \in InitialStores
    /\ taskLogs = EmptyBag
    /\ remoteTasks = << >>
    /\ balance \in 0..1
    /\ invs = EmptyBag
    /\ cbCount = 0
    /\ cb = NoCallback
    /\ faults = 0
    /\ files = [f \in Filenames |-> FALSE]
    /\ uploads = << >>

\* -------------------------------------------------------------- actions
\* The bag of invocation records: a new one, and one that moves on.
Add(bag, v) == bag (+) SetToBag({v})

Replace(bag, v, w) == (bag (-) SetToBag({v})) (+) SetToBag({w})

Failures(calls) == Cardinality({k \in 1..Len(calls) : ~calls[k].ok})

\* The environment lets at most MaxFaults outbound calls fail.
Fault(old, new) ==
    /\ faults' = faults + Failures(new) - Failures(old)
    /\ faults' <= MaxFaults

\* The subscription delivers another event to the agent.
CanDeliver == BagCardinality(invs) + cbCount < MaxEvents

\* run(data) up to its first await: get_step, the Pending check and the
\* dispatch.  The init handler has no await before its last call, so it is
\* one action.
RunNotPending(s) ==
    /\ CanDeliver
    /\ BagCardinality(invs) < MaxInv
    /\ ~ _is_step_pending(steps[s])
    /\ invs' = Add(invs, Invocation(steps[s], "done", << >>))
    /\ UNCHANGED <<steps, taskLogs, remoteTasks, balance, cbCount, cb, faults, files, uploads>>

RunInit(s, okCreate, okUpdate) ==
    /\ CanDeliver
    /\ BagCardinality(invs) < MaxInv
    /\ _is_step_pending(steps[s])
    /\ steps[s].name = "init"
    /\ ~okCreate => okUpdate          \* okUpdate is not used then
    /\ LET c == RunExcept(_handle_init_step(Ctx(<< >>), steps[s], okCreate,
                                            okUpdate), steps[s].task_id)
       IN  /\ steps' = c.steps
           /\ taskLogs' = c.taskLogs
           /\ invs' = Add(invs, Invocation(steps[s], "done", c.calls))
           /\ Fault(<< >>, c.calls)
    /\ UNCHANGED <<remoteTasks, balance, cbCount, cb, files, uploads>>

\* A step whose name is none of the three: run() raises ValueError and its
\* except clause logs it.
RunUnknown(s) ==
    /\ CanDeliver
    /\ BagCardinality(invs) < MaxInv
    /\ _is_step_pending(steps[s])
    /\ steps[s].name \notin {"init", "translate", "text2speech"}
    /\ LET c == RunExcept([Ctx(<< >>) EXCEPT !.raised = TRUE],
                          steps[s].task_id)
       IN  /\ taskLogs' = c.taskLogs
           /\ invs' = Add(invs, Invocation(steps[s], "done", c.calls))
    /\ UNCHANGED <<steps, remoteTasks, balance, cbCount, cb, faults, files, uploads>>

RunTranslate(s) ==
    /\ CanDeliver
    /\ BagCardinality(invs) < MaxInv
    /\ _is_step_pending(steps[s])
    /\ steps[s].name = "translate"
    /\ LET c == _log_task_start(Ctx(<< >>), steps[s].task_id,
                                "Starting translation")
       IN  /\ taskLogs' = c.taskLogs
           /\ invs' = Add(invs, Invocation(steps[s], "translate", c.calls))
    /\ UNCHANGED <<steps, remoteTasks, balance, cbCount, cb, faults, files, uploads>>

\* (variant: the step is marked In_Progress before it is completed)
_handle_translate_step_marks_first(ctx, step, translated_text, okUpdate) ==
    _complete_step(update_step([ctx EXCEPT !.calls = Append(@,
                                    Call("translate_text", translated_text,
                                         TRUE, step.step_id))],
                               step.step_id, [step_status |-> In_Progress],
                               TRUE),
                   step, "Translation complete", translated_text, okUpdate)

\* _handle_translate_step after its await: translate_text never raises (it
\* returns the completion or an "Error: ..." string), then _complete_step.
_handle_translate_step(ctx, step, translated_text, okUpdate) ==
    _complete_step([ctx EXCEPT !.calls = Append(@, Call("translate_text",
                                          translated_text, TRUE, step.step_id))],
                   step, "Translation complete", translated_text, okUpdate)

TranslateResume(v, reply, okUpdate) ==
    /\ BagIn(v, invs)
    /\ v.pc = "translate"
    /\ LET c == RunExcept(_handle_translate_step(Ctx(v.calls),
                              steps[v.step_id], translate_text(reply),
                              okUpdate), v.task_id)
       IN  /\ steps' = c.steps
           /\ taskLogs' = c.taskLogs
           /\ invs' = Replace(invs, v, [v EXCEPT !.pc = "done",
                                              !.calls = c.calls,
                                              !.reply = reply])
           /\ Fault(v.calls, c.calls)
    /\ UNCHANGED <<remoteTasks, balance, cbCount, cb, files, uploads>>

RunText2Speech(s) ==
    /\ CanDeliver
    /\ BagCardinality(invs) < MaxInv
    /\ _is_step_pending(steps[s])
    /\ steps[s].name = "text2speech"
    /\ LET c == _log_task_start(Ctx(<< >>), steps[s].task_id,
                                "Starting text-to-speech")
       IN  /\ taskLogs' = c.taskLogs
           /\ invs' = Add(invs, Invocation(steps[s], "t2s_balance", c.calls))
    /\ UNCHANGED <<steps, remoteTasks, balance, cbCount, cb, faults, files, uploads>>

\* (variant: the answer of order_plan is not looked at)
_ensure_sufficient_balance_ignores_order(bal, calls, order) ==
    LET c1 == Append(calls, Call("get_plan_balance", "", TRUE, bal))
    IN  IF bal < 1
        THEN [sufficient |-> TRUE, raised |-> (order = "raised"),
              balance |-> IF order = "success" THEN bal + PlanCredits ELSE bal,
              calls |-> Append(c1, Call("order_plan", order,
                                        order = "success",
                                        IF order = "success"
                                        THEN bal + PlanCredits ELSE bal))]
        ELSE [sufficient |-> TRUE, raised |-> FALSE, balance |-> bal,
              calls |-> c1]

\* (variant: the threshold is 0, so an empty plan is never topped up)
_ensure_sufficient_balance_no_topup(bal, calls, order) ==
    [sufficient |-> TRUE, raised |-> FALSE, balance |-> bal,
     calls |-> Append(calls, Call("get_plan_balance", "", TRUE, bal))]

\* _ensure_sufficient_balance: [sufficient, raised, balance, calls]
_ensure_sufficient_balance(bal, calls, order) ==
    LET c1 == Append(calls, Call("get_plan_balance", "", TRUE, bal))
    IN  IF bal < 1
        THEN IF order = "success"
             THEN [sufficient |-> TRUE, raised |-> FALSE,
                   balance |-> bal + PlanCredits,
                   calls |-> Append(c1, Call("order_plan", order, TRUE,
                                             bal + PlanCredits))]
             ELSE [sufficient |-> FALSE, raised |-> (order = "raised"),
                   balance |-> bal,
                   calls |-> Append(c1, Call("order_plan", order, FALSE, bal))]
        ELSE [sufficient |-> TRUE, raised |-> FALSE, balance |-> bal,
              calls |-> c1]

\* (variant: a 201 answer without a task registered on the remote agent)
create_task_unregistered(tasks, bal, calls, step_id, task_id, result) ==
    [remoteTasks |-> tasks, balance |-> bal,
     calls |-> Append(calls, Call("create_task",
                                  IF result = 201 THEN "201"
                                  ELSE IF result = 0 THEN "raised" ELSE "500",
                                  result = 201, 0))]

\* payments.ai_protocol.create_task: 201 registers the task on the
\* third-party agent (and its callback); another status code, or an
\* exception (0), creates nothing.
create_task(tasks, bal, calls, step_id, task_id, result) ==
    IF result = 201
    THEN [remoteTasks |-> Append(tasks,
                [task_id |-> Len(tasks) + 1, step_id |-> step_id,
                 local_task |-> task_id]),
          balance |-> bal,
          calls |-> Append(calls, Call("create_task", "201", TRUE,
                                       Len(tasks) + 1))]
    ELSE [remoteTasks |-> tasks, balance |-> bal,
          calls |-> Append(calls, Call("create_task",
                                       IF result = 0 THEN "raised" ELSE "500",
                                       FALSE, 0))]

\* _handle_text2speech_step from the balance check to the await of
\* create_task.
T2SDelegate(v, order, result) ==
    /\ BagIn(v, invs)
    /\ v.pc = "t2s_balance"
    /\ balance >= 1 => order = "success"                 \* no order then
    /\ (balance < 1 /\ order # "success") => result = 201  \* no create_task
    /\ LET b == _ensure_sufficient_balance(balance, v.calls, order)
           t == create_task(remoteTasks, b.balance, b.calls,
                            v.step_id, v.task_id, result)
       IN  IF b.raised \/ ~b.sufficient
           THEN LET c == IF b.raised
                         THEN RunExcept([Ctx(b.calls) EXCEPT !.raised = TRUE],
                                        v.task_id)
                         ELSE _log_task_error(Ctx(b.calls), v.task_id,
                                  "Insufficient balance for third-party plan")
                IN  /\ taskLogs' = c.taskLogs
                    /\ invs' = Replace(invs, v, [v EXCEPT !.pc = "done",
                                              !.calls = c.calls])
                    /\ balance' = b.balance
                    /\ Fault(v.calls, c.calls)
                    /\ UNCHANGED remoteTasks
           ELSE IF result = 0
           THEN LET c == RunExcept([Ctx(t.calls) EXCEPT !.raised = TRUE],
                                   v.task_id)
                IN  /\ taskLogs' = c.taskLogs
                    /\ invs' = Replace(invs, v, [v EXCEPT !.pc = "done",
                                              !.calls = c.calls])
                    /\ balance' = t.balance
                    /\ Fault(v.calls, c.calls)
                    /\ UNCHANGED remoteTasks
           ELSE /\ remoteTasks' = t.remoteTasks
                /\ balance' = t.balance
                /\ invs' = Replace(invs, v,
                              [v EXCEPT !.pc = "t2s_created",
                                 !.result = result,
                                 !.subtask = IF result = 201
                                             THEN Len(t.remoteTasks) ELSE 0,
                                 !.calls = t.calls])
                /\ Fault(v.calls, t.calls)
                /\ UNCHANGED taskLogs
    /\ UNCHANGED <<steps, cbCount, cb, files, uploads>>

\* (variant: the step is marked In_Progress whatever create_task answered)
T2SCreated_marks_anyway(v) ==
    /\ BagIn(v, invs)
    /\ v.pc = "t2s_created"
    /\ LET c == IF v.result = 201
                THEN _log_task(Ctx(v.calls), v.task_id,
                               "Subtask created successfully", In_Progress)
                ELSE _log_task_error(Ctx(v.calls), v.task_id,
                                     "Error creating subtask")
       IN  /\ taskLogs' = c.taskLogs
           /\ invs' = Replace(invs, v, [v EXCEPT !.calls = c.calls,
                                              !.pc = "t2s_mark"])
    /\ UNCHANGED <<steps, remoteTasks, balance, cbCount, cb, faults, files, uploads>>

\* ... the response of create_task: log In_Progress (an await), or log the
\* error and return.
T2SCreated(v) ==
    /\ BagIn(v, invs)
    /\ v.pc = "t2s_created"
    /\ LET ctx == Ctx(v.calls)
           c == IF v.result = 201
                THEN _log_task(ctx, v.task_id,
                               "Subtask created successfully", In_Progress)
                ELSE _log_task_error(ctx, v.task_id,
                                     "Error creating subtask")
       IN  /\ taskLogs' = c.taskLogs
           /\ invs' = Replace(invs, v,
                         [v EXCEPT !.calls = c.calls,
                            !.pc = IF v.result = 201 THEN "t2s_mark"
                                   ELSE "done"])
    /\ UNCHANGED <<steps, remoteTasks, balance, cbCount, cb, faults, files, uploads>>

\* ... and the update_step that marks the local step In_Progress.
T2SMark(v, okUpdate) ==
    /\ BagIn(v, invs)
    /\ v.pc = "t2s_mark"
    /\ LET c == RunExcept(update_step(Ctx(v.calls), v.step_id,
                              [step_status |-> In_Progress], okUpdate),
                          v.task_id)
       IN  /\ steps' = c.steps
           /\ taskLogs' = c.taskLogs
           /\ invs' = Replace(invs, v, [v EXCEPT !.pc = "done",
                                              !.calls = c.calls])
           /\ Fault(v.calls, c.calls)
    /\ UNCHANGED <<remoteTasks, balance, cbCount, cb, files, uploads>>

\* (variant: the remote output is not handed to _complete_step)
_subtask_finished_drops_output(ctx, subtask, step, okFetch, okUpdate) ==
    IF ~okFetch
    THEN [ctx EXCEPT !.raised = TRUE,
            !.calls = Append(@, Call("get_task_with_steps", "", FALSE,
                                     subtask.task_id))]
    ELSE _complete_step([ctx EXCEPT !.calls = Append(@,
                            Call("get_task_with_steps", subtask.task_status,
                                 TRUE, subtask.task_id))],
                        step, "Subtask completed", None, okUpdate)

\* _subtask_finished: fetch the remote task, then _complete_step.  An
\* exception here is not caught by the callback.
_subtask_finished(ctx, subtask, step, okFetch, okUpdate) ==
    IF ~okFetch
    THEN [ctx EXCEPT !.raised = TRUE,
            !.calls = Append(@, Call("get_task_with_steps", "", FALSE,
                                     subtask.task_id))]
    ELSE LET status == IF subtask.task_status = Completed THEN Completed
                       ELSE Failed
             c1 == [ctx EXCEPT !.calls = Append(@,
                        Call("get_task_with_steps", subtask.task_status, TRUE,
                             subtask.task_id))]
         IN  _complete_step(c1, step,
                 IF status = Completed THEN "Subtask completed"
                 ELSE "Subtask failed",
                 subtask.output, okUpdate)

\* (variant: a Completed callback is only logged)
task_callback_logs_only(ctx, subtask, step, data_task_id, task_status, okFetch, okUpdate) ==
    IF task_status = Failed
    THEN _log_task_error(ctx, data_task_id, "Error in subtask")
    ELSE _log_task(ctx, data_task_id, CallbackMessage,
                   IF task_status = Completed THEN In_Progress
                   ELSE task_status)

\* (variant: every status but Failed counts as Completed)
task_callback_eager(ctx, subtask, step, data_task_id, task_status, okFetch, okUpdate) ==
    IF task_status # Failed
    THEN _subtask_finished(ctx, subtask, step, okFetch, okUpdate)
    ELSE _log_task_error(ctx, data_task_id, "Error in subtask")

task_callback(ctx, subtask, step, data_task_id, task_status, okFetch, okUpdate) ==
    IF task_status = Completed
    THEN _subtask_finished(ctx, subtask, step, okFetch, okUpdate)
    ELSE IF task_status = Failed
    THEN _log_task_error(ctx, data_task_id, "Error in subtask")
    ELSE _log_task(ctx, data_task_id, CallbackMessage, task_status)

\* The third-party agent emits a task log with task_status for remote task
\* r; fetched and output are what get_task_with_steps returns for r then.
Callback(r, task_status, fetched, output, okFetch, okUpdate) ==
    /\ CanDeliver
    /\ (task_status # Completed \/ ~okFetch) =>          \* nothing fetched
           (fetched = Completed /\ output = "" /\ okUpdate)
    /\ task_status # Completed => okFetch
    /\ fetched # Completed => output = ""        \* a failed task has none
    /\ LET subtask == [task_id |-> r, task_status |-> fetched,
                       output |-> output]
           c == task_callback(Ctx(<< >>), subtask,
                              steps[remoteTasks[r].step_id],
                              remoteTasks[r].local_task, task_status,
                              okFetch, okUpdate)
       IN  /\ steps' = c.steps
           /\ taskLogs' = c.taskLogs
           /\ cbCount' = cbCount + 1
           /\ cb' = [subtask |-> r, task_status |-> task_status,
                     step_id |-> remoteTasks[r].step_id,
                     fetched |-> subtask,
                     raised |-> c.raised, calls |-> c.calls]
           /\ Fault(<< >>, c.calls)
    /\ UNCHANGED <<remoteTasks, balance, invs, files, uploads>>

Next ==
    \/ \E s \in 1..Len(steps) : RunNotPending(s)
    \/ \E s \in 1..Len(steps), okCreate, okUpdate \in BOOLEAN :
           RunInit(s, okCreate, okUpdate)
    \/ \E s \in 1..Len(steps) : RunUnknown(s)
    \/ \E s \in 1..Len(steps) : RunTranslate(s)
    \/ \E v \in BagToSet(invs), reply \in Replies, okUpdate \in BOOLEAN :
           TranslateResume(v, reply, okUpdate)
    \/ \E s \in 1..Len(steps) : RunText2Speech(s)
    \/ \E v \in BagToSet(invs), order \in OrderResults,
          result \in CreateTaskResults : T2SDelegate(v, order, result)
    \/ \E v \in BagToSet(invs) : T2SCreated(v)
    \/ \E v \in BagToSet(invs), okUpdate \in BOOLEAN : T2SMark(v, okUpdate)
    \/ \E r \in 1..Len(remoteTasks), st \in CallbackStatuses,
          fetched \in RemoteStatuses, out \in RemoteOutputs,
          okFetch, okUpdate \in BOOLEAN :
           Callback(r, st, fetched, out, okFetch, okUpdate)

Spec == Init /\ [][Next]_vars

\* The same program when no outbound call fails.
NextReliable == Next /\ faults' = 0

SpecReliable == Init /\ [][NextReliable]_vars

\* ------------------------------------------------------ the workflow run
\* The program when every outbound call succeeds, the subscription delivers
\* the event of each Pending step once its predecessor is Completed, and the
\* remote agent calls back with Completed.  Events beyond these (duplicates,
\* events of steps that are not Pending, further callbacks) are delivered
\* as long as the events still owed fit in the bounds.
Fresh(s) == \A w \in BagToSet(invs) : w.step_id # s

Ready(s) ==
    /\ Fresh(s)
    /\ steps[s].step_status = Pending
    /\ IF steps[s].predecessor = 0 THEN TRUE
       ELSE steps[steps[s].predecessor].step_status = Completed

\* Step-ready events and Completed callbacks still owed to the task.
OwedEvents ==
    LET owed == {s \in 1..Len(steps) :
                    Fresh(s) /\ steps[s].step_status = Pending}
    IN  Cardinality(owed)
          + 2 * Cardinality({s \in owed : steps[s].name = "init"})

OwedCallbacks ==
    IF \E e \in BagToSet(taskLogs) : e.task_status = Completed
    THEN 0 ELSE 1

SpareEvent ==
    /\ BagCardinality(invs) + cbCount + 1 + OwedEvents + OwedCallbacks
          <= MaxEvents

SpareInv == SpareEvent /\ BagCardinality(invs) + 1 + OwedEvents <= MaxInv

DeliverInit == \E s \in 1..Len(steps) : Ready(s) /\ RunInit(s, TRUE, TRUE)

DeliverUnknown == \E s \in 1..Len(steps) : Ready(s) /\ RunUnknown(s)

DeliverTranslate == \E s \in 1..Len(steps) : Ready(s) /\ RunTranslate(s)

DeliverText2Speech ==
    \E s \in 1..Len(steps) : Ready(s) /\ RunText2Speech(s)

DeliverAgain ==
    \E s \in 1..Len(steps) :
        /\ SpareInv
        /\ ~Fresh(s) \/ steps[s].step_status # Pending
        /\ \/ RunNotPending(s)
           \/ RunUnknown(s)
           \/ RunTranslate(s)
           \/ RunText2Speech(s)

ResumeTranslate ==
    \E v \in BagToSet(invs), reply \in Replies : TranslateResume(v, reply, TRUE)

ResumeDelegate == \E v \in BagToSet(invs) : T2SDelegate(v, "success", 201)

ResumeCreated == \E v \in BagToSet(invs) : T2SCreated(v)

ResumeMark == \E v \in BagToSet(invs) : T2SMark(v, TRUE)

RemoteCompleted ==
    \E r \in 1..Len(remoteTasks), fetched \in RemoteStatuses,
       out \in RemoteOutputs :
        /\ OwedCallbacks = 1
        /\ Callback(r, Completed, fetched, out, TRUE, TRUE)

RemoteOther ==
    \E r \in 1..Len(remoteTasks), st \in CallbackStatuses,
       fetched \in RemoteStatuses, out \in RemoteOutputs :
        /\ SpareEvent
        /\ Callback(r, st, fetched, out, TRUE, TRUE)

NextLive ==
    \/ DeliverInit
    \/ DeliverUnknown
    \/ DeliverTranslate
    \/ DeliverText2Speech
    \/ DeliverAgain
    \/ ResumeTranslate
    \/ ResumeDelegate
    \/ ResumeCreated
    \/ ResumeMark
    \/ RemoteCompleted
    \/ RemoteOther

\* The event loop resumes every suspended handler, the subscription
\* delivers every owed event, and the remote agent finishes its task.
Fairness ==
    /\ WF_vars(DeliverInit)
    /\ WF_vars(DeliverTranslate)
    /\ WF_vars(DeliverText2Speech)
    /\ WF_vars(ResumeTranslate)
    /\ WF_vars(ResumeDelegate)
    /\ WF_vars(ResumeCreated)
    /\ WF_vars(ResumeMark)
    /\ WF_vars(RemoteCompleted)

SpecLive == Init /\ [][NextLive]_vars /\ Fairness

\* ------------------------------------------------- the content publisher
\* (variant: the file is deleted only when the upload succeeded)
upload_file_to_ipfs_keeps_on_error(fs, filename, pin) ==
    IF fs[filename] /\ pin = "IpfsHash"
    THEN [files |-> [fs EXCEPT ![filename] = FALSE], raised |-> FALSE,
          returned |-> Cid, error |-> None]
    ELSE [files |-> fs, raised |-> TRUE, returned |-> None,
          error |-> "Failed to upload file to Pinata"]

\* IPFSHelper.upload_file_to_ipfs: [files, raised, returned, error].  The
\* try block pins the file and reads IpfsHash from the answer; any
\* exception there (no file to open, the service, a missing IpfsHash) is
\* raised again as "Failed to upload ..."; the finally block removes the
\* file when it exists.
upload_file_to_ipfs(fs, filename, pin) ==
    LET ok == fs[filename] /\ pin = "IpfsHash"
        after == IF fs[filename] THEN [fs EXCEPT ![filename] = FALSE] ELSE fs
    IN  [files |-> after, raised |-> ~ok,
         returned |-> IF ok THEN Cid ELSE None,
         error |-> IF ok THEN None ELSE "Failed to upload file to Pinata"]

\* OpenAITools.text2speech writes the audio to the path it returns.
text2speech(f) ==
    /\ f # "file.mp3"
    /\ ~files[f]
    /\ \A k \in 1..Len(uploads) : uploads[k].filename # f   \* mkdtemp: fresh
    /\ files' = [files EXCEPT ![f] = TRUE]
    /\ UNCHANGED <<steps, taskLogs, remoteTasks, balance, invs, cbCount, cb,
                   faults, uploads>>

Upload(f, pin) ==
    /\ Len(uploads) < MaxUploads
    /\ LET u == upload_file_to_ipfs(files, f, pin)
       IN  /\ files' = u.files
           /\ uploads' = Append(uploads,
                            [filename |-> f, existed |-> files[f], pin |-> pin,
                             raised |-> u.raised, returned |-> u.returned,
                             error |-> u.error])
    /\ UNCHANGED <<steps, taskLogs, remoteTasks, balance, invs, cbCount, cb,
                   faults>>

\* The publisher on its own: any files may be there when it is first called.
InitIpfs ==
    /\ steps = StartedTask
    /\ taskLogs = EmptyBag
    /\ remoteTasks = << >>
    /\ balance = 0
    /\ invs = EmptyBag
    /\ cbCount = 0
    /\ cb = NoCallback
    /\ faults = 0
    /\ files \in [Filenames -> BOOLEAN]
    /\ uploads = << >>

NextIpfs ==
    \/ \E f \in Filenames : text2speech(f)
    \/ \E f \in Filenames, pin \in PinResults : Upload(f, pin)

SpecIpfs == InitIpfs /\ [][NextIpfs]_vars

\* ------------------------------------------------------------ properties
InvSet == BagToSet(invs)
CbSet == IF cbCount > 0 THEN {cb} ELSE {}

\* Invocation and callback records that this step has added.
NewInvs == {w \in BagToSet(invs') : CopiesIn(w, invs') > CopiesIn(w, invs)}
NewCbs == IF cbCount' > cbCount THEN {cb'} ELSE {}

Ops(calls, op) == {k \in 1..Len(calls) : calls[k].op = op}

\* Every call made so far by an invocation of run(): <<record, copy, index>>.
InvCalls ==
    UNION {{<<w, c, k>> : c \in 1..CopiesIn(w, invs), k \in 1..Len(w.calls)} :
           w \in InvSet}

\* The handler side effects that have happened for step s.
SideEffects(s) ==
    {x \in InvCalls :
        /\ x[1].step_id = s
        /\ x[1].calls[x[3]].ok
        /\ x[1].calls[x[3]].op \in {"create_steps", "translate_text",
                                    "create_task"}}

\* C1: an event whose step is not Pending when run() fetches it makes run()
\* return at once: that invocation makes no call at all, and the step store,
\* the task log, the remote-task set and the plan are left as they were.
C1_NonPendingIsNoOp ==
    [][ /\ \A w \in BagToSet(invs') :
              w.fetched # Pending => (w.calls = << >> /\ w.pc = "done")
        /\ \A w \in NewInvs :
              w.fetched # Pending =>
                 UNCHANGED <<steps, taskLogs, remoteTasks, balance>> ]_vars

C1_Witness ==
    \E w \in InvSet : w.fetched \in {In_Progress, Completed} /\ w.pc = "done"

\* C2: for every step, the side effect of its handler (create_steps,
\* the translation call, create_task) has happened at most once.
C2_HandledAtMostOnce ==
    \A s \in 1..Len(steps) : Cardinality(SideEffects(s)) <= 1

\* C3: a Completed init step has exactly two successor steps in its task,
\* translate (predecessor init, not last) and text2speech (predecessor the
\* translate step, last).
C3_InitYieldsTwoSuccessors ==
    \A s \in 1..Len(steps) :
        (steps[s].name = "init" /\ steps[s].step_status = Completed) =>
            LET succ == {t \in 1..Len(steps) :
                            t # s /\ steps[t].task_id = steps[s].task_id}
            IN  /\ Cardinality(succ) = 2
                /\ \E a, b \in succ :
                      /\ steps[a].name = "translate"
                      /\ steps[a].predecessor = s
                      /\ ~steps[a].is_last
                      /\ steps[b].name = "text2speech"
                      /\ steps[b].predecessor = a
                      /\ steps[b].is_last

C5_FailedCallbackFailsStep ==
    [][ \A w \in NewCbs :
          (w.task_status = Failed
             /\ steps[w.step_id].step_status = In_Progress) =>
              steps'[w.step_id].step_status = Failed ]_vars

\* C6: after a callback has fetched the remote task, the local step is
\* Completed if the fetched task_status is Completed and Failed otherwise.
C6_StatusFollowsFetched ==
    [][ \A w \in NewCbs :
          (w.task_status = Completed /\ ~w.raised) =>
              steps'[w.step_id].step_status =
                  IF w.fetched.task_status = Completed THEN Completed
                  ELSE Failed ]_vars

\* C7: an invocation that read plan balance 0 made exactly one order_plan,
\* before any create_task; when that order did not succeed it made no
\* create_task and wrote exactly one Failed task log.
C7_OneTopUpBeforeCreate ==
    \A w \in InvSet :
        (\E g \in Ops(w.calls, "get_plan_balance") : w.calls[g].n = 0) =>
            LET orders == Ops(w.calls, "order_plan")
                creates == Ops(w.calls, "create_task")
            IN  /\ Cardinality(orders) = 1
                /\ \A o \in orders, c \in creates : o < c
                /\ (\A o \in orders : ~w.calls[o].ok) =>
                      /\ creates = {}
                      /\ w.subtask = 0
                      /\ w.pc = "done"
                      /\ Cardinality({k \in Ops(w.calls, "log_task") :
                                         w.calls[k].arg = Failed}) = 1

C7_Witness ==
    \E w \in InvSet :
        /\ \E g \in Ops(w.calls, "get_plan_balance") : w.calls[g].n = 0
        /\ \E o \in Ops(w.calls, "order_plan") : ~w.calls[o].ok
        /\ w.pc = "done"

\* C8: every create_task follows, in the same invocation, a balance check
\* that read at least 1 (and then no order_plan was made) or a successful
\* order_plan that left the plan with at least 1 credit; remote tasks come
\* from such create_task calls only.
C8_CreateOnlyWhenFunded ==
    /\ \A w \in InvSet :
          \A c \in Ops(w.calls, "create_task") :
              \/ /\ \E g \in Ops(w.calls, "get_plan_balance") :
                        g < c /\ w.calls[g].n >= 1
                 /\ Ops(w.calls, "order_plan") = {}
              \/ \E o \in Ops(w.calls, "order_plan") :
                     o < c /\ w.calls[o].ok /\ w.calls[o].n >= 1
    /\ Len(remoteTasks) =
          Cardinality({x \in InvCalls : /\ x[1].calls[x[3]].op = "create_task"
                                        /\ x[1].calls[x[3]].ok})

C8_Witness ==
    \E w \in InvSet :
        /\ \E c \in Ops(w.calls, "create_task") : w.calls[c].ok
        /\ \E o \in Ops(w.calls, "order_plan") : w.calls[o].ok

\* C9: at most one remote task is ever created for a local text2speech step.
C9_OneRemoteTaskPerStep ==
    \A s \in 1..Len(steps) :
        Cardinality({r \in 1..Len(remoteTasks) :
                        remoteTasks[r].step_id = s}) <= 1

\* C10: a callback whose status is neither Completed nor Failed appends one
\* task log entry with the callback's message and status to the local task,
\* and does nothing else: no update_step, no fetch of the remote task.
C10_NonTerminalCallbackOnlyLogs ==
    [][ \A w \in NewCbs :
          w.task_status \notin {Completed, Failed} =>
              /\ UNCHANGED <<steps, remoteTasks, balance>>
              /\ taskLogs' = taskLogs (+) SetToBag({
                     [task_id |-> remoteTasks[w.subtask].local_task,
                      message |-> CallbackMessage,
                      task_status |-> w.task_status]})
              /\ Len(w.calls) = 1
              /\ w.calls[1].op = "log_task" ]_vars

C10_Witness ==
    \E w \in CbSet : w.task_status = In_Progress /\ Len(w.calls) = 1

\* The three side effects of a handler that invocation w has performed.
Performed(w) ==
    {w.calls[k].op : k \in {j \in 1..Len(w.calls) :
        /\ w.calls[j].ok
        /\ \/ w.calls[j].op \in {"create_steps", "create_task"}
           \/ w.calls[j].op = "update_step" /\ w.calls[j].arg = Completed}}

Known == {"init", "translate", "text2speech"}

\* C11: run() on a Pending step whose name is none of init, translate and
\* text2speech makes one call only, a task log with status Failed for the
\* event's task that names the unknown step; it makes no update_step,
\* create_steps or create_task, and the step is still Pending afterwards.
C11_UnknownNameLogsFailed ==
    [][ \A w \in NewInvs :
          (w.fetched = Pending /\ steps[w.step_id].name \notin Known) =>
              /\ w.pc = "done"
              /\ Len(w.calls) = 1
              /\ w.calls[1].op = "log_task" /\ w.calls[1].arg = Failed
              /\ taskLogs' = taskLogs (+) SetToBag({
                     [task_id |-> w.task_id,
                      message |-> "Error processing step: Unknown step name",
                      task_status |-> Failed]})
              /\ UNCHANGED <<steps, remoteTasks, balance>>
              /\ steps'[w.step_id].step_status = Pending ]_vars

C11_Witness ==
    \E w \in InvSet :
        /\ w.fetched = Pending /\ steps[w.step_id].name \notin Known
        /\ w.pc = "done"
        /\ \E e \in BagToSet(taskLogs) : e.task_status = Failed

\* C12 (as stated): every finished invocation on a Pending step has
\* performed exactly one of create_steps, create_task and the update_step
\* to Completed.
C12_ExactlyOneSideEffect ==
    \A w \in InvSet :
        (w.fetched = Pending /\ w.pc = "done") =>
            Cardinality(Performed(w)) = 1

\* C12 (amended): an invocation on a Pending step never performs both
\* create_steps and create_task, and each side effect belongs to one step
\* name: create_steps to init, create_task to text2speech, the update_step
\* to Completed to init and translate.  When it has finished and no call of
\* it failed, init has performed create_steps and the completion, translate
\* the completion alone, text2speech create_task alone, and an unknown
\* name none of the three.
C12_SideEffectsByStepName ==
    \A w \in InvSet :
        w.fetched = Pending =>
            LET name == steps[w.step_id].name
                did == Performed(w)
            IN  /\ ~ ({"create_steps", "create_task"} \subseteq did)
                /\ "create_steps" \in did => name = "init"
                /\ "create_task" \in did => name = "text2speech"
                /\ "update_step" \in did =>
                      /\ name \in {"init", "translate"}
                      /\ name = "init" => "create_steps" \in did
                /\ (w.pc = "done" /\ Failures(w.calls) = 0) =>
                      did = CASE name = "init" ->
                                     {"create_steps", "update_step"}
                              [] name = "translate" -> {"update_step"}
                              [] name = "text2speech" -> {"create_task"}
                              [] OTHER -> {}

C12_Witness ==
    \E w \in InvSet :
        /\ w.fetched = Pending /\ w.pc = "done"
        /\ Performed(w) = {"create_steps", "update_step"}

\* C13: every finished invocation on a Pending step has appended at least
\* one task log entry.
C13_AtLeastOneLog ==
    \A w \in InvSet :
        (w.fetched = Pending /\ w.pc = "done") =>
            Ops(w.calls, "log_task") # {}

\* C14: once the init handler of a task has created its successors, exactly
\* one step of that task has is_last = TRUE.
C14_OneLastStepPerTask ==
    \A w \in InvSet :
        (steps[w.step_id].name = "init" /\ "create_steps" \in Performed(w)) =>
            Cardinality({t \in 1..Len(steps) :
                            /\ steps[t].task_id = w.task_id
                            /\ steps[t].is_last}) = 1

\* The call sequences of the invocations and callbacks this step has added.
NewCalls == {w.calls : w \in NewInvs} \cup {w.calls : w \in NewCbs}

CompletedLogCalls(c) == {k \in Ops(c, "log_task") : c[k].arg = Completed}

\* C15: a task log with status Completed is appended only right after a
\* successful update_step to Completed of a step whose is_last is TRUE, and
\* an invocation that completes a step whose is_last is FALSE appends no
\* Completed log.
C15_CompletedLogOnlyForLastStep ==
    [][ /\ \A e \in BagToSet(taskLogs') :
              (e.task_status = Completed
                 /\ CopiesIn(e, taskLogs') > CopiesIn(e, taskLogs)) =>
                  \E c \in NewCalls : CompletedLogCalls(c) # {}
        /\ \A c \in NewCalls :
              /\ \A k \in CompletedLogCalls(c) :
                    /\ k > 1
                    /\ c[k-1].op = "update_step" /\ c[k-1].ok
                    /\ c[k-1].arg = Completed
                    /\ steps[c[k-1].n].is_last
                    /\ steps'[c[k-1].n].step_status = Completed
              /\ \A k \in Ops(c, "update_step") :
                    (c[k].ok /\ c[k].arg = Completed
                       /\ ~steps[c[k].n].is_last) =>
                        CompletedLogCalls(c) = {} ]_vars

C15_Witness ==
    /\ \E e \in BagToSet(taskLogs) : e.task_status = Completed
    /\ \E t \in 1..Len(steps) :
          /\ steps[t].name = "translate" /\ steps[t].step_status = Completed
    /\ \E t \in 1..Len(steps) : steps[t].is_last /\ steps[t].step_status = Completed

\* What translate_text returns when the language-model call failed.
UpstreamFailed(text) == text = "Error: upstream"

\* C16: an invocation whose language-model call failed has written a Failed
\* task log after it and has not completed the step; the error text is not
\* recorded as the step's output.
C16_UpstreamFailureAborts ==
    \A w \in InvSet :
        \A k \in Ops(w.calls, "translate_text") :
            (UpstreamFailed(w.calls[k].arg) /\ w.pc = "done") =>
                /\ \E j \in Ops(w.calls, "log_task") :
                      j > k /\ w.calls[j].arg = Failed
                /\ "update_step" \notin Performed(w)
                /\ ~UpstreamFailed(steps[w.step_id].output)

FailedLog(task_id, message) ==
    SetToBag({[task_id |-> task_id, message |-> message,
               task_status |-> Failed]})

DelegationFailed(w) ==
    \E k \in Ops(w.calls, "order_plan") \cup Ops(w.calls, "create_task") :
        ~w.calls[k].ok

\* C18: a text2speech invocation whose top-up did not succeed, or whose
\* create_task was not answered with 201, ends with a Failed task log,
\* makes no update_step and leaves the step store as it was; when it is the
\* only invocation of its step, the step is still Pending.
C18_DelegationFailureLeavesStep ==
    [][ \A w \in NewInvs :
          (w.pc = "done" /\ DelegationFailed(w)) =>
              /\ w.calls[Len(w.calls)].op = "log_task"
              /\ w.calls[Len(w.calls)].arg = Failed
              /\ \E e \in BagToSet(taskLogs') :
                    /\ e.task_status = Failed /\ e.task_id = w.task_id
                    /\ taskLogs' = taskLogs (+) SetToBag({e})
              /\ Ops(w.calls, "update_step") = {}
              /\ w.subtask = 0
              /\ UNCHANGED <<steps, remoteTasks>>
              /\ (\A x \in BagToSet(invs') : x.step_id = w.step_id => x = w)
                   /\ CopiesIn(w, invs') = 1
                   => steps'[w.step_id].step_status = Pending ]_vars

C18_Witness ==
    /\ \E w \in InvSet :
          /\ w.pc = "done"
          /\ \E k \in Ops(w.calls, "create_task") : w.calls[k].arg = "500"
          /\ w.calls[Len(w.calls)].arg = Failed
          /\ steps[w.step_id].step_status = Pending

\* The call sequences of the finished invocations and callbacks.
FinishedCalls ==
    {w.calls : w \in {x \in InvSet : x.pc = "done"}} \cup {w.calls : w \in CbSet}

Outbound == {"translate_text", "get_plan_balance", "order_plan",
             "create_task", "get_task_with_steps", "create_steps"}

\* C19: in a finished invocation or callback every outbound call was made
\* at most once, and every call that failed is followed by a task log.
C19_FailureEndsInLog ==
    \A c \in FinishedCalls :
        /\ \A op \in Outbound : Cardinality(Ops(c, op)) <= 1
        /\ \A k \in 1..Len(c) :
              ~c[k].ok => \E j \in Ops(c, "log_task") : j > k

\* C20: after every call of upload_file_to_ipfs, returned or raised, there
\* is no file at the path it was given; it returns the content identifier
\* exactly when the file was there and the service answered with an
\* IpfsHash, and in every other case it raises, with the error, and returns
\* nothing.
C20_FileRemovedAndErrorRaised ==
    \A k \in 1..Len(uploads) :
        LET u == uploads[k]
        IN  /\ ~files[u.filename]
            /\ (u.existed /\ u.pin = "IpfsHash") =>
                  (~u.raised /\ u.returned = Cid /\ u.error = None)
            /\ ~(u.existed /\ u.pin = "IpfsHash") =>
                  (u.raised /\ u.returned = None /\ u.error # None)

C20_Witness ==
    /\ \E k \in 1..Len(uploads) :
          uploads[k].existed /\ uploads[k].raised
    /\ \E k \in 1..Len(uploads) :
          uploads[k].existed /\ ~uploads[k].raised

\* The successful update_step calls made on step s so far, by invocations
\* of run() and by the latest callback.
StatusUpdates(s) ==
    {x \in InvCalls : /\ x[1].calls[x[3]].op = "update_step"
                      /\ x[1].calls[x[3]].ok
                      /\ x[1].calls[x[3]].n = s}
    \cup {<<w, 0, k>> : w \in CbSet,
                        k \in {j \in Ops(cb.calls, "update_step") :
                                 cb.calls[j].ok /\ cb.calls[j].n = s}}

C22_TranslateTextNeverRaises ==
    \A w \in InvSet :
        \A k \in Ops(w.calls, "translate_text") :
            /\ w.calls[k].ok
            /\ w.reply \in Replies
            /\ w.calls[k].arg = IF w.reply.raised
                                THEN "Error: " \o w.reply.text
                                ELSE w.reply.text
            /\ w.calls[k].arg \in TranslateResults
            /\ k < Len(w.calls) /\ w.calls[k+1].op = "update_step"

C22_Witness ==
    \E w \in InvSet :
        /\ w.reply.raised
        /\ \E k \in Ops(w.calls, "translate_text") :
              w.calls[k].arg = "Error: upstream"

\* C23: a step that is Completed in the store stays Completed: no action
\* sets it back to In_Progress or Pending.
C23_CompletedNeverRegresses ==
    [][ \A s \in 1..Len(steps) :
          steps[s].step_status = Completed =>
              steps'[s].step_status = Completed ]_vars

\* C24: a text2speech step that is In_Progress has a remote task created
\* for it, and every update_step to In_Progress follows, in its invocation,
\* a create_task answered with 201 (so no failed top-up and no failed
\* creation came before it).
C24_InProgressHasRemoteTask ==
    /\ \A s \in 1..Len(steps) :
          steps[s].step_status = In_Progress =>
              /\ steps[s].name = "text2speech"
              /\ \E r \in 1..Len(remoteTasks) : remoteTasks[r].step_id = s
    /\ \A w \in InvSet :
          \A k \in Ops(w.calls, "update_step") :
              w.calls[k].arg = In_Progress =>
                  /\ \E c \in Ops(w.calls, "create_task") :
                        /\ c < k /\ w.calls[c].ok /\ w.calls[c].arg = "201"
                        /\ w.calls[c].n \in 1..Len(remoteTasks)
                        /\ remoteTasks[w.calls[c].n].step_id = w.step_id
                  /\ ~DelegationFailed(w)

C24_Witness ==
    \E s \in 1..Len(steps) :
        /\ steps[s].step_status = In_Progress
        /\ \E r \in 1..Len(remoteTasks) : remoteTasks[r].step_id = s

Successors(s) ==
    {t \in 1..Len(steps) : t # s /\ steps[t].task_id = steps[s].task_id}

\* C25: whenever an init step is Completed, a translate step whose
\* predecessor it is and a text2speech step after that one exist in its
\* task; an init invocation whose create_steps fails makes no update_step,
\* leaves the init step Pending and the store unchanged, and writes one
\* Failed task log.
C25_SuccessorsBeforeCompletion ==
    [][ /\ \A s \in 1..Len(steps') :
              (steps'[s].name = "init"
                 /\ steps'[s].step_status = Completed) =>
                  \E a, b \in 1..Len(steps') :
                      /\ steps'[a].name = "translate"
                      /\ steps'[a].predecessor = s
                      /\ steps'[a].task_id = steps'[s].task_id
                      /\ steps'[b].name = "text2speech"
                      /\ steps'[b].predecessor = a
                      /\ steps'[b].task_id = steps'[s].task_id
        /\ \A w \in NewInvs :
              (\E k \in Ops(w.calls, "create_steps") : ~w.calls[k].ok) =>
                  /\ UNCHANGED steps
                  /\ steps'[w.step_id].step_status = Pending
                  /\ Ops(w.calls, "update_step") = {}
                  /\ taskLogs' = taskLogs (+) FailedLog(w.task_id,
                         "Error processing step: create_steps raised") ]_vars

C25_Witness ==
    /\ \E w \in InvSet :
          \E k \in Ops(w.calls, "create_steps") : ~w.calls[k].ok
    /\ \E w \in InvSet :
          /\ steps[w.step_id].name = "init"
          /\ steps[w.step_id].step_status = Completed
          /\ Performed(w) = {"create_steps", "update_step"}

CompletedLogs(task_id) ==
    LET done == {e \in BagToSet(taskLogs) :
                    e.task_status = Completed /\ e.task_id = task_id}
    IN  BagCardinality([e \in done |-> CopiesIn(e, taskLogs)])

\* C26: the task log holds at most one entry with status Completed for a
\* task.
C26_OneCompletedLogPerTask ==
    CompletedLogs(TaskId) <= 1

\* Whether calls end in a successful update_step to Completed (followed at
\* most by the Completed log of a last step).
Completes(calls) ==
    \E k \in Ops(calls, "update_step") :
        calls[k].ok /\ calls[k].arg = Completed

\* The output a handler hands to _complete_step: the translation for
\* translate, nothing for init.
HandlerOutput(w) ==
    IF Ops(w.calls, "translate_text") = {} THEN None
    ELSE w.calls[CHOOSE k \in Ops(w.calls, "translate_text") : TRUE].arg

\* C28: when an invocation or a callback completes a step, the output
\* recorded is the handler's output when that is non-empty and the step's
\* input_query otherwise, and is_last is written back unchanged; an init
\* step is completed with its input_query as output.
C28_OutputOrInputQuery ==
    [][ /\ \A w \in NewInvs :
              Completes(w.calls) =>
                  LET s == w.step_id
                      out == HandlerOutput(w)
                  IN  /\ steps'[s].step_status = Completed
                      /\ steps'[s].output = IF Falsy(out)
                                            THEN steps[s].input_query ELSE out
                      /\ steps'[s].is_last = steps[s].is_last
                      /\ steps[s].name = "init" =>
                            steps'[s].output = steps[s].input_query
        /\ \A w \in NewCbs :
              Completes(w.calls) =>
                  LET s == w.step_id
                      out == w.fetched.output
                  IN  /\ steps'[s].step_status = Completed
                      /\ steps'[s].output = IF Falsy(out)
                                            THEN steps[s].input_query ELSE out
                      /\ steps'[s].is_last = steps[s].is_last ]_vars

C28_Witness ==
    /\ \E s \in 1..Len(steps) :
          /\ steps[s].name = "init" /\ steps[s].step_status = Completed
          /\ steps[s].output = steps[s].input_query
          /\ \E w \in InvSet : w.step_id = s /\ Completes(w.calls)
    /\ \E w \in InvSet :
          /\ Completes(w.calls) /\ HandlerOutput(w) = ""
          /\ steps[w.step_id].output = steps[w.step_id].input_query

\* C29: a finished invocation or callback whose update_step to Completed
\* of a last step failed has written no Completed task log and has written
\* a Failed one after the failure; a Completed log is written only after
\* such an update_step has succeeded.
C29_FailedUpdateLogsFailed ==
    \A c \in FinishedCalls :
        /\ \A k \in CompletedLogCalls(c) :
              k > 1 /\ c[k-1].op = "update_step" /\ c[k-1].ok
        /\ \A k \in Ops(c, "update_step") :
              (~c[k].ok /\ c[k].arg = Completed /\ steps[c[k].n].is_last) =>
                  /\ CompletedLogCalls(c) = {}
                  /\ \E j \in Ops(c, "log_task") :
                        j > k /\ c[j].arg = Failed

TaskCompleted ==
    /\ \A name \in Known :
          \E s \in 1..Len(steps) :
              /\ steps[s].name = name /\ steps[s].task_id = TaskId
              /\ steps[s].step_status = Completed
    /\ CompletedLogs(TaskId) >= 1

\* C27: when every outbound call succeeds, every owed step-ready event is
\* delivered and the remote agent calls back with Completed, a task that
\* starts with an init step reaches a state in which its init, translate
\* and text2speech steps are all Completed and a Completed task log is
\* written.
C27_TaskEventuallyCompleted ==
    (steps[1].name = "init") => <>TaskCompleted

C27_Witness ==
    /\ TaskCompleted
    /\ \E w \in InvSet : steps[w.step_id].name = "init" /\ Completes(w.calls)
    /\ \E w \in CbSet : Completes(w.calls)
====
